---- MODULE Spec2Model ----
(***************************************************************************)
(* app-launcher/server.py: the installed-application inventory (two        *)
(* collectors, merge by normalized name, a cache with a time-to-live) and  *)
(* the launch_app resolution, as a state machine.                          *)
(*                                                                         *)
(* Strings whose characters matter (display names, ids, queries) are       *)
(* sequences of one-character strings, so that strip / casefold / lower /  *)
(* substring are computed character by character as Python does.           *)
(***************************************************************************)
EXTENDS Integers, Sequences, FiniteSets, TLC

VARIABLES
    platform,    \* sys.platform
    cache,       \* _APP_CACHE: [timestamp, apps]
    now,         \* what time.time() returns
    request,     \* the arguments of the call_tool call being answered
    response,    \* what that call gives its caller, until it is written out
    files,       \* the paths that exist (os.path.exists)
    collected,   \* the collectors the call invoked, in order, with how each ended
    launched,    \* the subprocess.Popen calls the call made, in order
    popens,      \* how each of them ended: "" (started) or str(e) (it raised)
    inputs,      \* the records the last completed rebuild merged, in order
    command,     \* system-commander: the command of the execute_command call being answered
    answer,      \* system-commander: what that call returned, until it is written out
    shell        \* system-commander: the commands the call gave to subprocess.run(shell=True)

\* the state of app-launcher
launcher ==
    <<platform, cache, now, files, request, response, collected, launched, popens, inputs>>

\* the state of system-commander
commander == <<command, answer, shell>>

vars == <<launcher, commander>>

-----------------------------------------------------------------------------
(* Python values *)

\* None, kept apart from every string (no string holds this character).
None == <<"None">>

\* Python truthiness of an optional string: None and "" are falsy.
Truthy(v) == v # None /\ v # <<>>

Space == " "

\* ord() of the characters of the model's alphabet.
Ord(c) ==
    CASE c = " " -> 32
      [] c = "A" -> 65
      [] c = "B" -> 66
      [] c = "Z" -> 90
      [] c = "a" -> 97
      [] c = "b" -> 98
      [] c = "z" -> 122
      [] c = "0" -> 48
      [] c = "1" -> 49
      [] OTHER   -> 63

\* str.lower() of one character.
LowerChar(c) ==
    CASE c = "A" -> "a"
      [] c = "B" -> "b"
      [] c = "C" -> "c"
      [] c = "D" -> "d"
      [] c = "E" -> "e"
      [] c = "F" -> "f"
      [] c = "G" -> "g"
      [] c = "H" -> "h"
      [] c = "I" -> "i"
      [] c = "J" -> "j"
      [] c = "K" -> "k"
      [] c = "L" -> "l"
      [] c = "M" -> "m"
      [] c = "N" -> "n"
      [] c = "O" -> "o"
      [] c = "P" -> "p"
      [] c = "Q" -> "q"
      [] c = "R" -> "r"
      [] c = "S" -> "s"
      [] c = "T" -> "t"
      [] c = "U" -> "u"
      [] c = "V" -> "v"
      [] c = "W" -> "w"
      [] c = "X" -> "x"
      [] c = "Y" -> "y"
      [] c = "Z" -> "z"
      [] OTHER   -> c

\* str.lower()
Lower(s) == [i \in 1..Len(s) |-> LowerChar(s[i])]

\* str.casefold(); on the model's (ASCII) alphabet it folds as lower() does.
Casefold(s) == [i \in 1..Len(s) |-> LowerChar(s[i])]

RECURSIVE LStrip(_)
LStrip(s) == IF s # <<>> /\ Head(s) = Space THEN LStrip(Tail(s)) ELSE s

RECURSIVE RStrip(_)
RStrip(s) ==
    IF s # <<>> /\ s[Len(s)] = Space THEN RStrip(SubSeq(s, 1, Len(s) - 1)) ELSE s

\* str.strip()
Strip(s) == RStrip(LStrip(s))

\* `sub in s` for strings
Contains(s, sub) ==
    \E i \in 0..(Len(s) - Len(sub)) : SubSeq(s, i + 1, i + Len(sub)) = sub

\* s < t for strings (lexicographic by code point)
RECURSIVE StrLess(_, _)
StrLess(s, t) ==
    IF t = <<>> THEN FALSE
    ELSE IF s = <<>> THEN TRUE
    ELSE IF Head(s) # Head(t) THEN Ord(Head(s)) < Ord(Head(t))
    ELSE StrLess(Tail(s), Tail(t))

\* _normalize_name without the case folding.
_normalize_name_nofold(name) == Strip(name)

_normalize_name(name) == Casefold(Strip(name))

-----------------------------------------------------------------------------
(* The file system: a path is the sequence of its components *)

OneExe == <<"C:", "one", "one.exe">>
TwoExe == <<"C:", "two", "TWO.EXE">>
LibDll == <<"C:", "one", "lib.dll">>

\* raw.lower().endswith(".exe")
EndsWithExe(p) == p # <<>> /\ p[Len(p)] \in {"one.exe", "TWO.EXE"}

\* Path(p).parent
Parent(p) == SubSeq(p, 1, Len(p) - 1)

\* A DisplayIcon value is a path, optionally followed by ",<index>" (here
\* the path's components followed by the element IconIndex).
IconIndex == ",0"

\* raw.split(",", 1)[0]
BeforeComma(raw) ==
    IF raw # <<>> /\ raw[Len(raw)] = IconIndex THEN SubSeq(raw, 1, Len(raw) - 1) ELSE raw

\* _parse_display_icon: the bare path, and only when it names an .exe that
\* exists.
_parse_display_icon(display_icon) ==
    IF ~Truthy(display_icon) THEN None
    ELSE LET raw == BeforeComma(display_icon)
         IN  IF EndsWithExe(raw) /\ raw \in files THEN raw ELSE None

-----------------------------------------------------------------------------
(* Source collectors *)

\* One subkey of the Uninstall registry keys, as _get_registry_apps reads it.
\* readable = FALSE: EnumKey/OpenKey raised for it.
RegRecord(subkey) ==
    [name             |-> Strip(subkey.DisplayName),
     version          |-> subkey.DisplayVersion,
     publisher        |-> subkey.Publisher,
     install_location |-> subkey.InstallLocation,
     exe_path         |-> _parse_display_icon(subkey.DisplayIcon),
     app_id           |-> None,
     sources          |-> <<"registry">>]

\* _get_registry_apps: reg = [winreg, subkeys], the subkeys of the three
\* Uninstall keys in the order they are read.
RECURSIVE RegistryScan(_)
RegistryScan(subkeys) ==
    IF subkeys = <<>> THEN <<>>
    ELSE LET k == Head(subkeys)
             rest == RegistryScan(Tail(subkeys))
         IN  IF ~k.readable \/ ~Truthy(k.DisplayName)
             THEN rest
             ELSE <<RegRecord(k)>> \o rest

_get_registry_apps(reg) ==
    IF ~reg.winreg \/ platform # "win32" THEN <<>>
    ELSE RegistryScan(reg.subkeys)

StartRecord(item) ==
    [name             |-> Strip(item.Name),
     app_id           |-> Strip(item.AppID),
     exe_path         |-> None,
     version          |-> None,
     publisher        |-> None,
     install_location |-> None,
     sources          |-> <<"startapps">>]

RECURSIVE StartScan(_)
StartScan(items) ==
    IF items = <<>> THEN <<>>
    ELSE LET item == Head(items)
             rest == StartScan(Tail(items))
         IN  IF ~Truthy(item.Name) \/ ~Truthy(item.AppID)
             THEN rest
             ELSE <<StartRecord(item)>> \o rest

\* _get_start_apps: ps is what running powershell Get-StartApps gives:
\*   kind "raise"   subprocess.run raised (powershell missing, undecodable output)
\*   kind "fail"    returncode # 0
\*   kind "empty"   blank stdout
\*   kind "badjson" stdout is not JSON
\*   kind "scalar"  JSON that is neither an object nor a list
\*   kind "dict"    one object (items holds it)
\*   kind "list"    a list of objects
\* The result is [raised, apps]: raised = TRUE when the exception leaves the
\* function.
_get_start_apps(ps) ==
    IF platform # "win32" THEN [raised |-> FALSE, apps |-> <<>>]
    ELSE IF ps.kind = "raise" THEN [raised |-> TRUE, apps |-> <<>>]
    ELSE IF ps.kind \in {"fail", "empty", "badjson", "scalar"}
         THEN [raised |-> FALSE, apps |-> <<>>]
    ELSE [raised |-> FALSE, apps |-> StartScan(ps.items)]

-----------------------------------------------------------------------------
(* Merge engine *)

MergeFields == {"app_id", "exe_path", "version", "publisher", "install_location"}

\* sorted(set(a) | set(b)) for lists of source tags
SortedTags(tags) ==
    (IF "registry" \in tags THEN <<"registry">> ELSE <<>>)
        \o (IF "startapps" \in tags THEN <<"startapps">> ELSE <<>>)

SeqRange(s) == {s[i] : i \in 1..Len(s)}

\* _merge_apps in which a non-empty incoming value overwrites.
_merge_apps_overwrite(primary, incoming) ==
    [f \in DOMAIN primary |->
        IF f \in MergeFields
        THEN IF Truthy(incoming[f]) THEN incoming[f] ELSE primary[f]
        ELSE IF f = "sources"
        THEN SortedTags(SeqRange(primary.sources) \cup SeqRange(incoming.sources))
        ELSE primary[f]]

\* _merge_apps that appends the new tags without sorting.
_merge_apps_unsorted(primary, incoming) ==
    [f \in DOMAIN primary |->
        IF f \in MergeFields
        THEN IF ~Truthy(primary[f]) /\ Truthy(incoming[f])
             THEN incoming[f] ELSE primary[f]
        ELSE IF f = "sources"
        THEN primary.sources
                \o SelectSeq(incoming.sources, LAMBDA t : t \notin SeqRange(primary.sources))
        ELSE primary[f]]

\* _merge_apps built on the incoming record: its name is kept.
_merge_apps_incoming_name(primary, incoming) ==
    [f \in DOMAIN primary |->
        IF f \in MergeFields
        THEN IF ~Truthy(primary[f]) /\ Truthy(incoming[f])
             THEN incoming[f] ELSE primary[f]
        ELSE IF f = "sources"
        THEN SortedTags(SeqRange(primary.sources) \cup SeqRange(incoming.sources))
        ELSE incoming[f]]

\* _merge_apps that takes the sources of the incoming record alone.
_merge_apps_incoming_sources(primary, incoming) ==
    [f \in DOMAIN primary |->
        IF f \in MergeFields
        THEN IF ~Truthy(primary[f]) /\ Truthy(incoming[f])
             THEN incoming[f] ELSE primary[f]
        ELSE IF f = "sources"
        THEN SortedTags(SeqRange(incoming.sources))
        ELSE primary[f]]

_merge_apps(primary, incoming) ==
    [f \in DOMAIN primary |->
        IF f \in MergeFields
        THEN IF ~Truthy(primary[f]) /\ Truthy(incoming[f])
             THEN incoming[f] ELSE primary[f]
        ELSE IF f = "sources"
        THEN SortedTags(SeqRange(primary.sources) \cup SeqRange(incoming.sources))
        ELSE primary[f]]

\* `key in deduped` that never finds the key.
KeyIndex_Never(deduped, key) == 0

\* Position of the entry with this key in the dict, 0 when absent.
KeyIndex(deduped, key) ==
    IF \E i \in 1..Len(deduped) : _normalize_name(deduped[i].name) = key
    THEN CHOOSE i \in 1..Len(deduped) : _normalize_name(deduped[i].name) = key
    ELSE 0

\* The dedupe loop of _get_all_apps; the dict is the sequence of its values
\* in insertion order (a replaced value keeps its key's position).
RECURSIVE Dedupe(_, _)
Dedupe(deduped, apps) ==
    IF apps = <<>> THEN deduped
    ELSE LET app == Head(apps)
             i == KeyIndex(deduped, _normalize_name(app.name))
         IN  IF i # 0
             THEN Dedupe([deduped EXCEPT ![i] = _merge_apps(deduped[i], app)], Tail(apps))
             ELSE Dedupe(Append(deduped, app), Tail(apps))

\* sorted(..., key=lambda a: a["name"].lower()): a stable sort, here by
\* insertion: each element goes after every element whose key is not greater.
RECURSIVE InsertSorted(_, _)
InsertSorted(sorted, app) ==
    IF sorted = <<>> THEN <<app>>
    ELSE IF StrLess(Lower(app.name), Lower(Head(sorted).name))
         THEN <<app>> \o sorted
         ELSE <<Head(sorted)>> \o InsertSorted(Tail(sorted), app)

\* The values of the dict as they are, without the sort.
SortByName_Unsorted(apps) == apps

RECURSIVE SortByName(_)
SortByName(apps) ==
    IF apps = <<>> THEN <<>>
    ELSE InsertSorted(SortByName(SubSeq(apps, 1, Len(apps) - 1)), apps[Len(apps)])

-----------------------------------------------------------------------------
(* Inventory cache *)

CACHE_TTL_SECONDS == 300

\* CacheHit with the time-to-live one second short.
CacheHit_OneShort(refresh) ==
    ~refresh /\ cache.apps # <<>> /\ (now - cache.timestamp < CACHE_TTL_SECONDS - 1)

\* The test at the head of _get_all_apps: serve the held list.
CacheHit(refresh) ==
    ~refresh /\ cache.apps # <<>> /\ (now - cache.timestamp < CACHE_TTL_SECONDS)

\* How a collector call ended, as the call's trace records it.
Collected(name, outcome) == [name |-> name, outcome |-> outcome]

\* _get_all_apps that stamps the cache before it collects.
_get_all_apps_StampFirst(refresh, ps, reg) ==
    IF CacheHit(refresh)
    THEN [raised |-> FALSE, apps |-> cache.apps, cache |-> cache,
          collected |-> <<>>, inputs |-> inputs]
    ELSE LET start == _get_start_apps(ps)
         IN  IF start.raised
             THEN [raised |-> TRUE, apps |-> <<>>,
                   cache |-> [cache EXCEPT !.timestamp = now],
                   collected |-> <<Collected("startapps", ps.kind)>>, inputs |-> inputs]
             ELSE LET apps == start.apps \o _get_registry_apps(reg)
                      result == SortByName(Dedupe(<<>>, apps))
                  IN  [raised |-> FALSE, apps |-> result,
                       cache |-> [timestamp |-> now, apps |-> result],
                       collected |-> <<Collected("startapps", ps.kind),
                                       Collected("registry",
                                           IF reg.winreg THEN "ok" ELSE "unavailable")>>,
                       inputs |-> apps]

\* _get_all_apps(refresh) when powershell gives ps and the registry holds reg.
\* The result describes the call:
\*   raised     an exception left the function (nothing was assigned)
\*   apps       the list returned
\*   cache      _APP_CACHE after the call
\*   collected  the collectors invoked, in order (start apps: ps.kind;
\*              registry: "ok", or "unavailable" without winreg)
\*   inputs     the concatenated collector records that were merged
_get_all_apps(refresh, ps, reg) ==
    IF CacheHit(refresh)
    THEN [raised |-> FALSE, apps |-> cache.apps, cache |-> cache,
          collected |-> <<>>, inputs |-> inputs]
    ELSE LET start == _get_start_apps(ps)
         IN  IF start.raised
             THEN [raised |-> TRUE, apps |-> <<>>, cache |-> cache,
                   collected |-> <<Collected("startapps", ps.kind)>>, inputs |-> inputs]
             ELSE LET apps == start.apps \o _get_registry_apps(reg)
                      result == SortByName(Dedupe(<<>>, apps))
                  IN  [raised |-> FALSE, apps |-> result,
                       cache |-> [timestamp |-> now, apps |-> result],
                       collected |-> <<Collected("startapps", ps.kind),
                                       Collected("registry",
                                           IF reg.winreg THEN "ok" ELSE "unavailable")>>,
                       inputs |-> apps]

-----------------------------------------------------------------------------
(* call_tool *)

ErrPlatform       == "This tool is only supported on Windows."
ErrMissingTarget  == "Provide name or app_id."
ErrNoMatch        == "No apps found matching"
ErrAmbiguous      == "Multiple matches found. Use a more specific name or app_id."
ErrLaunchAppId    == "Failed to launch AppID: "
ErrLaunchExe      == "Failed to launch exe: "
ErrNoLaunchMethod == "No launch method available for this app. Try using app_id from list_installed_apps."
ErrUnknownTool    == "Unknown tool: "

DefaultLimit == 200
MaxOptions == 10

NoLaunch == [method |-> "", name |-> None, app_id |-> None, exe_path |-> None]

\* What call_tool gives its caller. kind "result": the JSON it returned;
\* kind "exception": an exception left call_tool and no JSON was returned.
NoResponse ==
    [kind |-> "none", success |-> FALSE, error |-> "", detail |-> "",
     count |-> 0, apps |-> <<>>, matches |-> <<>>, launched |-> NoLaunch]

Failure(error, detail) ==
    [NoResponse EXCEPT !.kind = "result", !.error = error, !.detail = detail]

Escaped == [NoResponse EXCEPT !.kind = "exception"]

NoRequest ==
    [tool |-> "", query |-> None, limit |-> <<>>, include_registry |-> TRUE,
     include_start_apps |-> TRUE, name |-> None, app_id |-> None,
     exact |-> FALSE, refresh |-> FALSE]

\* The server handles one call at a time: a call is accepted when the reply
\* to the previous one has been written.
Idle == response.kind = "none"

\* arguments.get(key) or ""
OrEmpty(v) == IF Truthy(v) THEN v ELSE <<>>

\* int(arguments.get("limit") or 200); the argument is <<>> when absent and
\* <<n>> when given.
LimitOf(limit) == IF limit = <<>> \/ limit[1] = 0 THEN DefaultLimit ELSE limit[1]

Max(a, b) == IF a >= b THEN a ELSE b
Min(a, b) == IF a <= b THEN a ELSE b

\* seq[:n] for n >= 0
Take(seq, n) == SubSeq(seq, 1, Min(n, Len(seq)))

\* The filter loop with "and" between the two tests.
Allowed_Both(app, include_registry, include_start) ==
    /\ include_registry => "registry" \in SeqRange(app.sources)
    /\ include_start => "startapps" \in SeqRange(app.sources)
    /\ include_registry \/ include_start

\* The filter loop of list_installed_apps.
Allowed(app, include_registry, include_start) ==
    \/ include_registry /\ "registry" \in SeqRange(app.sources)
    \/ include_start /\ "startapps" \in SeqRange(app.sources)

Filtered(apps, query, include_registry, include_start) ==
    LET Keep(app) ==
            /\ Allowed(app, include_registry, include_start)
            /\ ~(query # <<>> /\ ~Contains(Casefold(app.name), query))
    IN  SelectSeq(apps, Keep)

ListResult(apps, args) ==
    LET query == Casefold(Strip(OrEmpty(args.query)))
        limit == LimitOf(args.limit)
        filtered == Take(Filtered(apps, query, args.include_registry,
                                  args.include_start_apps), Max(1, limit))
    IN  [NoResponse EXCEPT !.kind = "result", !.success = TRUE,
                           !.count = Len(filtered), !.apps = filtered]

\* sys.platform != "win32", with no test at all.
Unsupported_Never == FALSE

\* The test at the head of call_tool.
Unsupported == platform # "win32"

\* list_installed_apps that filters and truncates the held list itself.
ListInstalledApps_InPlace(args, ps, reg) ==
    /\ Idle
    /\ request' = args
    /\ launched' = <<>>
    /\ popens' = <<>>
    /\ UNCHANGED <<platform, now, files>>
    /\ IF Unsupported
       THEN /\ response' = Failure(ErrPlatform, "")
            /\ collected' = <<>>
            /\ UNCHANGED <<cache, inputs>>
       ELSE \E got \in {_get_all_apps(args.refresh, ps, reg)} :
                /\ inputs' = got.inputs
                /\ collected' = got.collected
                /\ response' = IF got.raised THEN Escaped
                               ELSE ListResult(got.apps, args)
                /\ cache' = IF got.raised THEN got.cache
                            ELSE [got.cache EXCEPT !.apps = response'.apps]

\* name == "list_installed_apps"
ListInstalledApps(args, ps, reg) ==
    /\ Idle
    /\ request' = args
    /\ launched' = <<>>
    /\ popens' = <<>>
    /\ UNCHANGED <<platform, now, files>>
    /\ IF Unsupported
       THEN /\ response' = Failure(ErrPlatform, "")
            /\ collected' = <<>>
            /\ UNCHANGED <<cache, inputs>>
       ELSE \E got \in {_get_all_apps(args.refresh, ps, reg)} :
                /\ cache' = got.cache
                /\ inputs' = got.inputs
                /\ collected' = got.collected
                /\ response' = IF got.raised THEN Escaped
                               ELSE ListResult(got.apps, args)

\* subprocess.Popen(["explorer.exe", "shell:AppsFolder\\<app_id>"])
AppIdLaunch(app_id) == [launcher |-> "explorer.exe", target |-> app_id, cwd |-> None]

\* subprocess.Popen([exe_path], cwd=str(Path(exe_path).parent))
ExeLaunch(exe_path) == [launcher |-> "exe", target |-> exe_path, cwd |-> Parent(exe_path)]

Launched(method, name, app_id, exe_path) ==
    [NoResponse EXCEPT !.kind = "result", !.success = TRUE,
        !.launched = [method |-> method, name |-> name, app_id |-> app_id,
                      exe_path |-> exe_path]]

\* os.path.exists that finds every path.
Exists_Always(path) == TRUE

\* os.path.exists(exe_path) when the launch is made
Exists(path) == path \in files

\* Matches that takes the substring test whatever exact says.
Matches_AlwaysPartial(apps, name_key, exact) ==
    LET Partial(a) == Contains(_normalize_name(a.name), name_key)
    IN  SelectSeq(apps, Partial)

\* The matches of the name path.
Matches(apps, name_key, exact) ==
    LET Exact(a) == _normalize_name(a.name) = name_key
        Partial(a) == Contains(_normalize_name(a.name), name_key)
    IN  IF exact THEN SelectSeq(apps, Exact) ELSE SelectSeq(apps, Partial)

\* Options without the [:10].
Options_All(matches) ==
    [i \in 1..Len(matches) |->
        [name |-> matches[i].name, app_id |-> matches[i].app_id,
         exe_path |-> matches[i].exe_path]]

\* {"name": ..., "app_id": ..., "exe_path": ...} for m in matches[:10]
Options(matches) ==
    [i \in 1..Min(MaxOptions, Len(matches)) |->
        [name |-> matches[i].name, app_id |-> matches[i].app_id,
         exe_path |-> matches[i].exe_path]]

\* LaunchDirect without the except clause around Popen.
LaunchDirect_IgnoreError(app_id, popen) ==
    [response |-> Launched("startapps", None, app_id, None),
     launched |-> <<AppIdLaunch(app_id)>>]

\* LaunchDirect that reports success without starting a process.
LaunchDirect_Skipped(app_id, popen) ==
    [response |-> Launched("startapps", None, app_id, None),
     launched |-> <<>>]

\* LaunchDirect that reports the method of the executable launcher.
LaunchDirect_ExeTag(app_id, popen) ==
    [response |-> IF popen = ""
                  THEN Launched("exe", None, app_id, None)
                  ELSE Failure(ErrLaunchAppId, popen),
     launched |-> <<AppIdLaunch(app_id)>>]

\* launch_app with an app_id argument: no inventory access.
\* popen is "" when Popen succeeds and str(e) when it raises.
LaunchDirect(app_id, popen) ==
    [response |-> IF popen = ""
                  THEN Launched("startapps", None, app_id, None)
                  ELSE Failure(ErrLaunchAppId, popen),
     launched |-> <<AppIdLaunch(app_id)>>]

\* LaunchByName that tries the executable before the app id.
LaunchByName_ExeFirst(apps, name_value, exact, popen) ==
    LET matches == Matches(apps, _normalize_name(name_value), exact)
        match == matches[1]
    IN  IF matches = <<>>
        THEN [response |-> Failure(ErrNoMatch, ""), launched |-> <<>>]
        ELSE IF Len(matches) > 1
        THEN [response |-> [Failure(ErrAmbiguous, "") EXCEPT !.matches = Options(matches)],
              launched |-> <<>>]
        ELSE IF Truthy(match.exe_path) /\ match.exe_path \in files
        THEN [response |-> IF popen = ""
                           THEN Launched("exe", match.name, None, match.exe_path)
                           ELSE Failure(ErrLaunchExe, popen),
              launched |-> <<ExeLaunch(match.exe_path)>>]
        ELSE IF Truthy(match.app_id)
        THEN [response |-> IF popen = ""
                           THEN Launched("startapps", match.name, match.app_id, None)
                           ELSE Failure(ErrLaunchAppId, popen),
              launched |-> <<AppIdLaunch(match.app_id)>>]
        ELSE [response |-> Failure(ErrNoLaunchMethod, ""), launched |-> <<>>]

\* LaunchByName that goes on to the executable when explorer.exe could not
\* be started.
LaunchByName_Fallback(apps, name_value, exact, popen) ==
    LET matches == Matches(apps, _normalize_name(name_value), exact)
        match == matches[1]
        exe == Truthy(match.exe_path) /\ match.exe_path \in files
    IN  IF matches = <<>>
        THEN [response |-> Failure(ErrNoMatch, ""), launched |-> <<>>]
        ELSE IF Len(matches) > 1
        THEN [response |-> [Failure(ErrAmbiguous, "") EXCEPT !.matches = Options(matches)],
              launched |-> <<>>]
        ELSE IF Truthy(match.app_id) /\ (popen = "" \/ ~exe)
        THEN [response |-> IF popen = ""
                           THEN Launched("startapps", match.name, match.app_id, None)
                           ELSE Failure(ErrLaunchAppId, popen),
              launched |-> <<AppIdLaunch(match.app_id)>>]
        ELSE IF exe
        THEN [response |-> IF popen = ""
                           THEN Launched("exe", match.name, None, match.exe_path)
                           ELSE Failure(ErrLaunchExe, popen),
              launched |-> IF Truthy(match.app_id)
                           THEN <<AppIdLaunch(match.app_id), ExeLaunch(match.exe_path)>>
                           ELSE <<ExeLaunch(match.exe_path)>>]
        ELSE [response |-> Failure(ErrNoLaunchMethod, ""), launched |-> <<>>]

\* launch_app from line 296 on: apps is what _get_all_apps returned.
LaunchByName(apps, name_value, exact, popen) ==
    LET matches == Matches(apps, _normalize_name(name_value), exact)
        match == matches[1]
    IN  IF matches = <<>>
        THEN [response |-> Failure(ErrNoMatch, ""), launched |-> <<>>]
        ELSE IF Len(matches) > 1
        THEN [response |-> [Failure(ErrAmbiguous, "") EXCEPT !.matches = Options(matches)],
              launched |-> <<>>]
        ELSE IF Truthy(match.app_id)
        THEN [response |-> IF popen = ""
                           THEN Launched("startapps", match.name, match.app_id, None)
                           ELSE Failure(ErrLaunchAppId, popen),
              launched |-> <<AppIdLaunch(match.app_id)>>]
        ELSE IF Truthy(match.exe_path) /\ Exists(match.exe_path)
        THEN [response |-> IF popen = ""
                           THEN Launched("exe", match.name, None, match.exe_path)
                           ELSE Failure(ErrLaunchExe, popen),
              launched |-> <<ExeLaunch(match.exe_path)>>]
        ELSE [response |-> Failure(ErrNoLaunchMethod, ""), launched |-> <<>>]

\* The validation of launch_app left out.
MissingTarget_Never(app_id, name_value) == FALSE

\* not app_id and not name_value
MissingTarget(app_id, name_value) == app_id = <<>> /\ name_value = <<>>

\* name == "launch_app"
LaunchApp(args, ps, reg, popen) ==
    /\ Idle
    /\ request' = args
    /\ UNCHANGED <<platform, now, files>>
    /\ LET app_id == Strip(OrEmpty(args.app_id))
           name_value == Strip(OrEmpty(args.name))
       IN  IF Unsupported
           THEN /\ response' = Failure(ErrPlatform, "")
                /\ collected' = <<>>
                /\ launched' = <<>>
                /\ popens' = <<>>
                /\ UNCHANGED <<cache, inputs>>
           ELSE IF MissingTarget(app_id, name_value)
           THEN /\ response' = Failure(ErrMissingTarget, "")
                /\ collected' = <<>>
                /\ launched' = <<>>
                /\ popens' = <<>>
                /\ UNCHANGED <<cache, inputs>>
           ELSE IF app_id # <<>>
           THEN /\ response' = LaunchDirect(app_id, popen).response
                /\ launched' = LaunchDirect(app_id, popen).launched
                /\ popens' = [i \in 1..Len(launched') |-> popen]
                /\ collected' = <<>>
                /\ UNCHANGED <<cache, inputs>>
           ELSE \E got \in {_get_all_apps(args.refresh, ps, reg)} :
                \E out \in {LaunchByName(got.apps, name_value, args.exact, popen)} :
                    /\ cache' = got.cache
                    /\ inputs' = got.inputs
                    /\ collected' = got.collected
                    /\ response' = IF got.raised THEN Escaped ELSE out.response
                    /\ launched' = IF got.raised THEN <<>> ELSE out.launched
                    /\ popens' = [i \in 1..Len(launched') |-> popen]

\* any other tool name
UnknownTool ==
    /\ Idle
    /\ request' = [NoRequest EXCEPT !.tool = "other"]
    /\ response' = IF Unsupported THEN Failure(ErrPlatform, "")
                   ELSE Failure(ErrUnknownTool, "")
    /\ collected' = <<>>
    /\ launched' = <<>>
    /\ popens' = <<>>
    /\ UNCHANGED <<platform, now, files, cache, inputs>>

\* server.run writes the reply to the caller; the next call can be read.
Reply ==
    /\ ~Idle
    /\ request' = NoRequest
    /\ response' = NoResponse
    /\ collected' = <<>>
    /\ launched' = <<>>
    /\ popens' = <<>>
    /\ UNCHANGED <<platform, now, files, cache, inputs>>

-----------------------------------------------------------------------------
(* The environment: what the collectors find, which files exist, what Popen
   does, and the arguments callers send *)

\* time.time() when the server starts, and the instants at which calls
\* arrive: at the start, one second before a snapshot built at the start
\* reaches the time-to-live, and when it reaches it.
Epoch == 1000
Instants == {Epoch, Epoch + CACHE_TTL_SECONDS - 1, Epoch + CACHE_TTL_SECONDS}

StartItem(name, app_id) == [Name |-> name, AppID |-> app_id]

\* Get-StartApps rows: two spellings of one name with different ids, and a
\* row whose AppID is null.
StartAb == StartItem(<<"A", "b">>, <<"1">>)
Startab == StartItem(<<" ", "a", "b">>, <<"0", " ">>)
StartNoId == StartItem(<<"b">>, None)

Ps(kind, items) == [kind |-> kind, items |-> items]

Subkey(name, version, publisher, location, icon) ==
    [readable |-> TRUE, DisplayName |-> name, DisplayVersion |-> version,
     Publisher |-> publisher, InstallLocation |-> location, DisplayIcon |-> icon]

\* Uninstall subkeys: two spellings of the start-menu name with different
\* optional values, a name of its own, and a subkey that cannot be opened.
RegAB == Subkey(<<"A", "B">>, <<"1">>, None, <<>>, OneExe)
Regab == Subkey(<<"a", "b", " ">>, <<"0">>, <<"z">>, <<"z">>, Append(TwoExe, IconIndex))
RegB == Subkey(<<"B">>, None, None, None, OneExe)
\* the same name once more, with an icon that is no executable
RegDll == Subkey(<<"b">>, None, None, None, LibDll)
Unreadable == [Subkey(None, None, None, None, None) EXCEPT !.readable = FALSE]

\* A long registry listing: BulkLen names that all contain "z".
BulkLen == 11
BulkDigits == <<"0", "1", "a", "b">>
BulkName(i) == <<"z", BulkDigits[((i - 1) \div 4) + 1], BulkDigits[((i - 1) % 4) + 1]>>
BulkSubkeys == [i \in 1..BulkLen |-> Subkey(BulkName(i), None, None, None, None)]

Reg(subkeys) == [winreg |-> TRUE, subkeys |-> subkeys]

\* What the collectors meet in the main specification.
PsOutcomes ==
    {Ps("raise", <<>>), Ps("fail", <<>>), Ps("list", <<>>),
     Ps("dict", <<StartAb>>), Ps("list", <<StartAb, Startab>>)}

RegOutcomes ==
    {Reg(<<>>), Reg(<<RegAB>>), Reg(<<Unreadable, RegDll, RegB>>),
     Reg(<<RegAB, RegB, Regab>>), Reg(BulkSubkeys)}

\* The files: TwoExe stays, OneExe is removed and put back.
FsOutcomes == {{OneExe, TwoExe}, {TwoExe}}

PopenOutcomes == {"", "WinError 2"}

ListArgs ==
    {[NoRequest EXCEPT !.tool = "list_installed_apps", !.refresh = r] : r \in BOOLEAN}

LaunchBy(name, app_id, exact, refresh) ==
    [NoRequest EXCEPT !.tool = "launch_app", !.name = name, !.app_id = app_id,
                      !.exact = exact, !.refresh = refresh]

LaunchArgs ==
    {LaunchBy(n, None, e, r) :
        n \in {<<"b">>, <<" ", "A", "B">>, <<"z">>}, e \in BOOLEAN, r \in BOOLEAN}
    \cup {LaunchBy(None, <<"1", " ">>, FALSE, FALSE),
          LaunchBy(<<"b">>, <<"1", " ">>, FALSE, TRUE),
          LaunchBy(<<"b">>, <<" ">>, FALSE, FALSE),
          LaunchBy(None, None, FALSE, FALSE),
          LaunchBy(<<" ">>, <<>>, TRUE, TRUE)}

-----------------------------------------------------------------------------
(* The state machine *)

Init ==
    /\ platform \in {"win32", "linux"}
    /\ cache = [timestamp |-> 0, apps |-> <<>>]
    /\ now = Epoch
    /\ files = {OneExe, TwoExe}
    /\ request = NoRequest
    /\ response = NoResponse
    /\ collected = <<>>
    /\ launched = <<>>
    /\ popens = <<>>
    /\ inputs = <<>>
    /\ command = None
    /\ answer = [kind |-> "none", reason |-> ""]
    /\ shell = <<>>

\* time passes between two calls
Tick(t) ==
    /\ Idle
    /\ t > now
    /\ now' = t
    /\ UNCHANGED <<platform, cache, files, request, response, collected, launched, popens, inputs>>

\* a file is removed or created between two calls
FileChange(fs) ==
    /\ Idle
    /\ fs # files
    /\ files' = fs
    /\ UNCHANGED <<platform, cache, now, request, response, collected, launched, popens, inputs>>

Next ==
    /\ \/ \E t \in Instants : Tick(t)
       \/ \E fs \in FsOutcomes : FileChange(fs)
       \/ \E args \in ListArgs, ps \in PsOutcomes, reg \in RegOutcomes :
             ListInstalledApps(args, ps, reg)
       \/ \E args \in LaunchArgs, ps \in PsOutcomes, reg \in RegOutcomes,
             popen \in PopenOutcomes :
             LaunchApp(args, ps, reg, popen)
       \/ UnknownTool
       \/ Reply
    /\ UNCHANGED commander

Spec == Init /\ [][Next]_vars

-----------------------------------------------------------------------------
(* The first build, over every short listing the collectors can return *)

\* Longest listing a collector returns in SpecMerge.
MaxLen == 2

SeqsUpTo(S, n) == UNION {[1..k -> S] : k \in 0..n}

StartPool == {StartAb, Startab, StartNoId}

\* RegLate repeats the name once more with every optional value set and
\* another executable.
RegLate == Subkey(<<"a", "B">>, <<"z">>, <<"0">>, <<"0">>, TwoExe)
RegPool == {RegAB, Regab, RegLate, RegB, Unreadable}

MergePs ==
    {Ps(k, <<>>) : k \in {"raise", "fail", "empty", "badjson", "scalar"}}
        \cup {Ps("dict", <<i>>) : i \in StartPool}
        \cup {Ps("list", l) : l \in SeqsUpTo(StartPool, MaxLen)}

MergeReg == {Reg(l) : l \in SeqsUpTo(RegPool, MaxLen)}

MergeFs == SUBSET {OneExe, TwoExe}

\* list_installed_apps while nothing has been built yet
FirstBuild(ps, reg) ==
    /\ cache.timestamp = 0
    /\ ListInstalledApps([NoRequest EXCEPT !.tool = "list_installed_apps"], ps, reg)

NextMerge ==
    /\ \/ \E fs \in MergeFs : FileChange(fs)
       \/ \E ps \in MergePs, reg \in MergeReg : FirstBuild(ps, reg)
       \/ Reply
    /\ UNCHANGED commander

SpecMerge == Init /\ [][NextMerge]_vars

-----------------------------------------------------------------------------
(* list_installed_apps over its query, limit and source arguments *)

\* Largest absolute value of a limit argument in SpecQuery.
MaxLimit == 2

QueryLimits == {<<>>} \cup {<<n>> : n \in (0 - MaxLimit)..MaxLimit}

\* no query, and one that needs trimming and case folding
QueryStrings == {None, <<" ", "B">>}

QueryArgs ==
    {[NoRequest EXCEPT !.tool = "list_installed_apps", !.query = q, !.limit = l,
                       !.include_registry = ir, !.include_start_apps = is,
                       !.refresh = r] :
        q \in QueryStrings, l \in QueryLimits, ir \in BOOLEAN, is \in BOOLEAN,
        r \in BOOLEAN}

\* Snapshots with a record from each source alone, from both, a long one,
\* and listings in which a name is blank.
\* a row whose Name is one blank
StartBlank == StartItem(<<" ">>, <<"0">>)

QueryPs ==
    {Ps("raise", <<>>), Ps("list", <<>>), Ps("dict", <<StartAb>>),
     Ps("list", <<StartBlank, StartAb>>)}
\* a subkey whose DisplayName is one blank
RegBlank == Subkey(<<" ">>, <<"1">>, None, None, None)

QueryReg ==
    {Reg(<<RegB>>), Reg(<<RegAB, RegB>>), Reg(<<RegBlank, RegB>>), Reg(BulkSubkeys)}

NextQuery ==
    /\ \/ \E args \in QueryArgs, ps \in QueryPs, reg \in QueryReg :
             ListInstalledApps(args, ps, reg)
       \/ Reply
    /\ UNCHANGED commander

SpecQuery == Init /\ [][NextQuery]_vars

-----------------------------------------------------------------------------
(* system-commander/server.py: execute_command and its three block lists.
   A command is the sequence of its characters. *)

\* the words that make is_dangerous_command skip its check
DangerSkips ==
    {<<"g", "e", "t", "-", "c", "o", "n", "t", "e", "n", "t">>,
     <<"t", "y", "p", "e", " ">>,
     <<"c", "a", "t", " ">>,
     <<"m", "o", "r", "e", " ">>}

\* dangerous_patterns of is_dangerous_command, in order
dangerous_patterns ==
    <<
      [pattern |-> <<"f", "o", "r", "m", "a", "t", " ">>,
       name |-> "Format disk - EXTREMELY DANGEROUS"],
      [pattern |-> <<"d", "i", "s", "k", "p", "a", "r", "t">>,
       name |-> "Disk partition tool - DANGEROUS"],
      [pattern |-> <<"f", "d", "i", "s", "k">>,
       name |-> "Disk partition tool - DANGEROUS"],
      [pattern |-> <<"d", "e", "l", " ", "/", "s">>,
       name |-> "Recursive delete - DANGEROUS"],
      [pattern |-> <<"r", "m", "d", "i", "r", " ", "/", "s">>,
       name |-> "Recursive directory removal - DANGEROUS"],
      [pattern |-> <<"r", "d", " ", "/", "s">>,
       name |-> "Recursive directory removal - DANGEROUS"],
      [pattern |-> <<"r", "m", " ", "-", "r", "f", " ", "/">>,
       name |-> "Recursive force delete - EXTREMELY DANGEROUS"],
      [pattern |-> <<"r", "m", " ", "-", "r", "f", " ", "*">>,
       name |-> "Recursive force delete all - EXTREMELY DANGEROUS"],
      [pattern |-> <<"d", "e", "l", " ", "c", ":", "\\", "w", "i", "n", "d", "o", "w", "s">>,
       name |-> "Delete Windows system files - EXTREMELY DANGEROUS"],
      [pattern |-> <<"d", "e", "l", " ", "c", ":", "\\", "p", "r", "o", "g", "r", "a", "m", " ", "f", "i", "l", "e", "s">>,
       name |-> "Delete Program Files - DANGEROUS"],
      [pattern |-> <<"r", "e", "g", " ", "d", "e", "l", "e", "t", "e">>,
       name |-> "Registry deletion - DANGEROUS"],
      [pattern |-> <<"r", "e", "g", "e", "d", "i", "t", " ", "/", "s">>,
       name |-> "Silent registry import - DANGEROUS"],
      [pattern |-> <<"s", "h", "u", "t", "d", "o", "w", "n", " ", "/", "s", " ", "/", "t", " ", "0">>,
       name |-> "Immediate shutdown"],
      [pattern |-> <<"s", "h", "u", "t", "d", "o", "w", "n", " ", "/", "r", " ", "/", "t", " ", "0">>,
       name |-> "Immediate restart"],
      [pattern |-> <<"b", "o", "o", "t", "r", "e", "c">>,
       name |-> "Boot record operations - DANGEROUS"],
      [pattern |-> <<"b", "c", "d", "e", "d", "i", "t">>,
       name |-> "Boot configuration - DANGEROUS"],
      [pattern |-> <<"d", "d", " ", "i", "f", "=">>,
       name |-> "Direct disk write - EXTREMELY DANGEROUS"],
      [pattern |-> <<"c", "i", "p", "h", "e", "r", " ", "/", "w", ":">>,
       name |-> "Wipe free space - DANGEROUS"],
      [pattern |-> <<"c", "o", "n", "v", "e", "r", "t", " ">>,
       name |-> "File system conversion - DANGEROUS"],
      [pattern |-> <<"r", "e", "m", "o", "v", "e", "-", "i", "t", "e", "m", " ", "-", "r", "e", "c", "u", "r", "s", "e", " ", "-", "f", "o", "r", "c", "e">>,
       name |-> "PowerShell recursive force delete - DANGEROUS"],
      [pattern |-> <<"g", "e", "t", "-", "c", "h", "i", "l", "d", "i", "t", "e", "m", " ", "|", " ", "r", "e", "m", "o", "v", "e", "-", "i", "t", "e", "m">>,
       name |-> "PowerShell bulk delete - DANGEROUS"],
      [pattern |-> <<":", "(", ")", "{", " ", ":", "|", ":", "&", " ", "}", ";", ":">>,
       name |-> "Fork bomb - DANGEROUS"],
      [pattern |-> <<"%", "0", "|", "%", "0">>,
       name |-> "Windows fork bomb - DANGEROUS"]
    >>

\* the words that make is_long_running_command skip its check
LongRunningSkips ==
    {<<"g", "e", "t", "-", "c", "o", "n", "t", "e", "n", "t">>,
     <<"t", "y", "p", "e", " ">>,
     <<"c", "a", "t", " ">>,
     <<"m", "o", "r", "e", " ">>,
     <<"l", "e", "s", "s", " ">>}

\* blocked_patterns of is_long_running_command, in order
blocked_patterns ==
    <<
      [pattern |-> <<"n", "p", "m", " ", "r", "u", "n", " ", "d", "e", "v">>,
       name |-> "npm run dev"],
      [pattern |-> <<"n", "p", "m", " ", "s", "t", "a", "r", "t">>,
       name |-> "npm start"],
      [pattern |-> <<"y", "a", "r", "n", " ", "d", "e", "v">>,
       name |-> "yarn dev"],
      [pattern |-> <<"y", "a", "r", "n", " ", "s", "t", "a", "r", "t">>,
       name |-> "yarn start"],
      [pattern |-> <<"p", "n", "p", "m", " ", "d", "e", "v">>,
       name |-> "pnpm dev"],
      [pattern |-> <<"p", "n", "p", "m", " ", "s", "t", "a", "r", "t">>,
       name |-> "pnpm start"],
      [pattern |-> <<"n", "o", "d", "e", " ", "s", "e", "r", "v", "e", "r">>,
       name |-> "node server"],
      [pattern |-> <<"n", "o", "d", "e", "m", "o", "n">>,
       name |-> "nodemon"],
      [pattern |-> <<"p", "y", "t", "h", "o", "n", " ", "-", "m", " ", "h", "t", "t", "p", ".", "s", "e", "r", "v", "e", "r">>,
       name |-> "Python HTTP server"],
      [pattern |-> <<"p", "y", "t", "h", "o", "n", " ", "m", "a", "n", "a", "g", "e", ".", "p", "y", " ", "r", "u", "n", "s", "e", "r", "v", "e", "r">>,
       name |-> "Django dev server"],
      [pattern |-> <<"f", "l", "a", "s", "k", " ", "r", "u", "n">>,
       name |-> "Flask dev server"],
      [pattern |-> <<"u", "v", "i", "c", "o", "r", "n">>,
       name |-> "Uvicorn server"],
      [pattern |-> <<"g", "u", "n", "i", "c", "o", "r", "n">>,
       name |-> "Gunicorn server"],
      [pattern |-> <<"w", "e", "b", "p", "a", "c", "k", " ", "-", "-", "w", "a", "t", "c", "h">>,
       name |-> "Webpack watcher"],
      [pattern |-> <<"v", "i", "t", "e">>,
       name |-> "Vite dev server"],
      [pattern |-> <<"n", "e", "x", "t", " ", "d", "e", "v">>,
       name |-> "Next.js dev server"],
      [pattern |-> <<"n", "g", " ", "s", "e", "r", "v", "e">>,
       name |-> "Angular dev server"],
      [pattern |-> <<"s", "e", "r", "v", "e">>,
       name |-> "serve command"],
      [pattern |-> <<"h", "t", "t", "p", "-", "s", "e", "r", "v", "e", "r">>,
       name |-> "http-server"],
      [pattern |-> <<"l", "i", "v", "e", "-", "s", "e", "r", "v", "e", "r">>,
       name |-> "live-server"]
    >>

\* gui_patterns of is_gui_launch_command, in order
gui_patterns ==
    <<
      [pattern |-> <<"n", "o", "t", "e", "p", "a", "d">>,
       name |-> "Notepad"],
      [pattern |-> <<"w", "o", "r", "d", "p", "a", "d">>,
       name |-> "WordPad"],
      [pattern |-> <<"c", "o", "d", "e", " ">>,
       name |-> "VS Code"],
      [pattern |-> <<"s", "t", "a", "r", "t", " ", "n", "o", "t", "e", "p", "a", "d">>,
       name |-> "Notepad"],
      [pattern |-> <<"s", "t", "a", "r", "t", " ", "\"", "\"", " ", "n", "o", "t", "e", "p", "a", "d">>,
       name |-> "Notepad"],
      [pattern |-> <<"e", "x", "p", "l", "o", "r", "e", "r", " ">>,
       name |-> "Windows Explorer"],
      [pattern |-> <<"s", "t", "a", "r", "t", " ", "\"", "\"", " ", "e", "x", "p", "l", "o", "r", "e", "r">>,
       name |-> "Windows Explorer"]
    >>

\* for pattern, name in patterns: if pattern in text: return True, name
FirstHit(patterns, text) ==
    LET hits == {i \in 1..Len(patterns) : Contains(text, patterns[i].pattern)}
    IN  IF hits = {}
        THEN [hit |-> FALSE, name |-> ""]
        ELSE [hit |-> TRUE,
              name |-> patterns[CHOOSE i \in hits : \A j \in hits : i <= j].name]

is_dangerous_command(cmdline) ==
    LET command_lower == Lower(cmdline)
    IN  IF \E x \in DangerSkips : Contains(command_lower, x)
        THEN [hit |-> FALSE, name |-> ""]
        ELSE FirstHit(dangerous_patterns, command_lower)

is_long_running_command(cmdline) ==
    LET command_lower == Lower(cmdline)
    IN  IF \E x \in LongRunningSkips : Contains(command_lower, x)
        THEN [hit |-> FALSE, name |-> ""]
        ELSE FirstHit(blocked_patterns, command_lower)

is_gui_launch_command(cmdline) == FirstHit(gui_patterns, Strip(Lower(cmdline)))

\* What execute_command returned: kind "danger" is the DANGEROUS COMMAND
\* BLOCKED text, "blocked" the Command blocked text, "gui" the GUI editor
\* launch blocked text, "output" the output of the command, "error" the
\* Error executing text of the except clause.
NoAnswer == [kind |-> "none", reason |-> ""]

CommandIdle == answer.kind = "none"

\* name == "execute_command"; run is "" when subprocess.run returns and
\* str(e) when it raises (TimeoutExpired after 30 s).
ExecuteCommand(c, run) ==
    /\ CommandIdle
    /\ command' = c
    /\ LET danger == is_dangerous_command(c)
           blocked == is_long_running_command(c)
           gui == is_gui_launch_command(c)
       IN  IF danger.hit
           THEN /\ answer' = [kind |-> "danger", reason |-> danger.name]
                /\ shell' = <<>>
           ELSE IF blocked.hit
           THEN /\ answer' = [kind |-> "blocked", reason |-> blocked.name]
                /\ shell' = <<>>
           ELSE IF gui.hit
           THEN /\ answer' = [kind |-> "gui", reason |-> gui.name]
                /\ shell' = <<>>
           ELSE /\ shell' = <<c>>
                /\ answer' = IF run = "" THEN [kind |-> "output", reason |-> ""]
                                         ELSE [kind |-> "error", reason |-> run]
    /\ UNCHANGED launcher

\* server.run writes the answer to the caller.
CommandReply ==
    /\ ~CommandIdle
    /\ command' = None
    /\ answer' = NoAnswer
    /\ shell' = <<>>
    /\ UNCHANGED launcher

\* Pieces of command lines: a harmless command, two dangerous ones, two
\* servers, a file read, cmd's command separator and an editor.

CmdDir == <<"d", "i", "r">>
CmdDelS == <<"D", "E", "L", " ", "/", "S", " ", "x">>
CmdFormat == <<"f", "o", "r", "m", "a", "t", " ", "c", ":">>
CmdNpmDev == <<"n", "p", "m", " ", "r", "u", "n", " ", "d", "e", "v">>
CmdFlask == <<"F", "l", "a", "s", "k", " ", "r", "u", "n">>
CmdType == <<"t", "y", "p", "e", " ", "x">>
CmdAmp == <<" ", "&", " ">>
CmdNotepad == <<"n", "o", "t", "e", "p", "a", "d", " ", "x">>

CommandPieces == {CmdDir, CmdDelS, CmdFormat, CmdNpmDev, CmdFlask, CmdType, CmdAmp, CmdNotepad}

\* Most pieces a command line is made of.
MaxParts == 3

RECURSIVE Concat(_)
Concat(parts) == IF parts = <<>> THEN <<>> ELSE Head(parts) \o Concat(Tail(parts))

Commands == {Concat(parts) : parts \in UNION {[1..k -> CommandPieces] : k \in 1..MaxParts}}

RunOutcomes == {"", "timed out after 30 seconds"}

NextCommand ==
    \/ \E c \in Commands, run \in RunOutcomes : ExecuteCommand(c, run)
    \/ CommandReply

SpecCommand == Init /\ [][NextCommand]_vars

-----------------------------------------------------------------------------
(* Properties *)

\* The identity key of the design: trim, then case-fold.
NormalizedKey(name) == Casefold(Strip(name))

OnWindows == platform = "win32"

\* The call reads the inventory: list_installed_apps, or launch_app on its
\* name path (no app_id, a name).
UsesSnapshot(req) ==
    \/ req.tool = "list_installed_apps"
    \/ /\ req.tool = "launch_app"
       /\ Strip(OrEmpty(req.app_id)) = <<>>
       /\ Strip(OrEmpty(req.name)) # <<>>

NamePath(req) ==
    /\ req.tool = "launch_app"
    /\ Strip(OrEmpty(req.app_id)) = <<>>
    /\ Strip(OrEmpty(req.name)) # <<>>

\* The records of the last build's input that have the key of record m.
SameKey(m) ==
    LET Same(r) == NormalizedKey(r.name) = NormalizedKey(m.name)
    IN  SelectSeq(inputs, Same)

Built == cache.timestamp # 0

\* C1: a call without refresh that finds a non-empty snapshot younger than
\* 300 s leaves the cache as it is, invokes no collector, and a
\* list_installed_apps call answers with the projection of that snapshot.
C1_FreshSnapshotServed ==
    [][(/\ Idle /\ OnWindows
        /\ UsesSnapshot(request') /\ ~request'.refresh
        /\ cache.apps # <<>>
        /\ now - cache.timestamp < 300)
       => (/\ cache' = cache
           /\ collected' = <<>>
           /\ response'.kind = "result"
           /\ request'.tool = "list_installed_apps"
                => /\ response'.apps = cache.apps
                   /\ response'.count = Len(cache.apps))]_vars

\* C1 witness: a list call without refresh answered from a snapshot that is
\* 299 s old.
C1_Witness ==
    /\ OnWindows /\ request.tool = "list_installed_apps" /\ ~request.refresh
    /\ response.kind = "result" /\ response.count > 0
    /\ collected = <<>>
    /\ now - cache.timestamp = 299

\* C2: a call without refresh made when the held snapshot is 300 s old or older
\* invokes both collectors and returns, and leaves in the cache, a snapshot
\* stamped now that is made of the newly collected records only.
C2_StaleSnapshotRebuilt ==
    [][(/\ Idle /\ OnWindows
        /\ UsesSnapshot(request') /\ ~request'.refresh
        /\ Built /\ now - cache.timestamp >= 300)
       => (/\ Len(collected') = 2
           /\ response'.kind = "result"
           /\ cache'.timestamp = now
           /\ \A i \in 1..Len(cache'.apps) :
                 \E k \in 1..Len(inputs') :
                    NormalizedKey(inputs'[k].name) = NormalizedKey(cache'.apps[i].name))]_vars

\* C3: a call with refresh = true that reads the inventory invokes both
\* collectors and replaces the snapshot by one stamped now, however young
\* the held one is, and answers from the new one.
C3_RefreshRebuilds ==
    [][(/\ Idle /\ OnWindows
        /\ UsesSnapshot(request') /\ request'.refresh)
       => (/\ Len(collected') = 2
           /\ response'.kind = "result"
           /\ cache'.timestamp = now
           /\ request'.tool = "list_installed_apps" => response'.apps = cache'.apps)]_vars

\* C4: no two records of the held snapshot have the same normalized key, and
\* every key of the records that were collected has exactly one record.
C4_UniqueKeys ==
    /\ \A i, j \in 1..Len(cache.apps) :
          i # j => NormalizedKey(cache.apps[i].name) # NormalizedKey(cache.apps[j].name)
    /\ Built =>
          \A k \in 1..Len(inputs) :
             Cardinality({i \in 1..Len(cache.apps) :
                 NormalizedKey(cache.apps[i].name) = NormalizedKey(inputs[k].name)}) = 1

\* C4 witness: a snapshot built from two start-menu records with one key and
\* two registry records with that same key.
C4_Witness ==
    /\ Built
    /\ \E a, b, c, d \in 1..Len(inputs) :
          /\ a < b /\ c < d
          /\ inputs[a].sources = <<"startapps">> /\ inputs[b].sources = <<"startapps">>
          /\ inputs[c].sources = <<"registry">> /\ inputs[d].sources = <<"registry">>
          /\ \A x \in {b, c, d} :
                NormalizedKey(inputs[x].name) = NormalizedKey(inputs[a].name)
          /\ inputs[a].name # inputs[b].name

\* C5: each of the five optional fields of a merged record holds the first
\* non-empty value among the collected records with its key, in processing
\* order (start-menu records before registry records), and is empty when
\* none of them has a value.
C5_FirstNonEmptyWins ==
    Built =>
       /\ \A i, j \in 1..Len(inputs) :
             (i < j /\ inputs[j].sources = <<"startapps">>)
                => inputs[i].sources = <<"startapps">>
       /\ \A i \in 1..Len(cache.apps) :
          \A f \in {"app_id", "exe_path", "version", "publisher", "install_location"} :
             LET m == cache.apps[i]
                 same == SameKey(m)
                 full == {k \in 1..Len(same) : Truthy(same[k][f])}
             IN  IF full = {}
                 THEN ~Truthy(m[f])
                 ELSE m[f] = same[CHOOSE k \in full : \A l \in full : k <= l][f]

\* C5 witness: a merged record whose first input lacks a field that the
\* second and the third input both have, with different values.
C5_Witness ==
    /\ Built
    /\ \E i \in 1..Len(cache.apps) :
       \E f \in {"app_id", "exe_path", "version", "publisher", "install_location"} :
          LET m == cache.apps[i]
              same == SameKey(m)
          IN  /\ Len(same) >= 3
              /\ ~Truthy(same[1][f]) /\ Truthy(same[2][f]) /\ Truthy(same[3][f])
              /\ same[2][f] # same[3][f]
              /\ m[f] = same[2][f]

\* C6: the sources of a merged record are the union of the sources of the
\* collected records with its key, as a sorted list.
C6_SourcesUnion ==
    Built =>
       \A i \in 1..Len(cache.apps) :
          LET m == cache.apps[i]
              same == SameKey(m)
          IN  /\ SeqRange(m.sources) = UNION {SeqRange(same[k].sources) : k \in 1..Len(same)}
              /\ m.sources \in {<<"registry">>, <<"startapps">>, <<"registry", "startapps">>}

\* C6 witness: a record merged from a start-menu record and a registry record.
C6_Witness ==
    /\ Built
    /\ \E i \in 1..Len(cache.apps) :
          /\ cache.apps[i].sources = <<"registry", "startapps">>
          /\ Len(SameKey(cache.apps[i])) >= 2

\* C7: when a collector raised or signalled failure in the rebuild a call
\* made, the call still returns a result, both collectors were invoked, and
\* the cache holds a snapshot stamped now built from the other collector's
\* records.
C7_CollectorFailureAbsorbed ==
    (/\ ~Idle
     /\ \E k \in 1..Len(collected) : collected[k].outcome \in {"raise", "fail", "badjson"})
    => /\ response.kind = "result"
       /\ Len(collected) = 2
       /\ cache.timestamp = now
       /\ \A k \in 1..Len(inputs) : inputs[k].sources = <<"registry">>

\* C8: every call ends with a structured result; no exception leaves
\* call_tool.
C8_NoEscapedException == response.kind # "exception"

\* The positions of the snapshot's records that match the request's name.
MatchingIndices(req) ==
    LET key == NormalizedKey(Strip(OrEmpty(req.name)))
    IN  {i \in 1..Len(cache.apps) :
            IF req.exact
            THEN NormalizedKey(cache.apps[i].name) = key
            ELSE Contains(NormalizedKey(cache.apps[i].name), key)}

\* The k-th smallest element of a set of numbers.
Kth(S, k) == CHOOSE x \in S : Cardinality({y \in S : y <= x}) = k

\* C9: on the name path, when more than one record matches, the answer is
\* the ambiguity error with the first min(10, n) matches in snapshot order,
\* each as {name, app_id, exe_path}, and nothing is launched.
C9_AmbiguousListsFirstTen ==
    (/\ OnWindows /\ NamePath(request) /\ response.kind = "result"
     /\ Cardinality(MatchingIndices(request)) > 1)
    => LET idx == MatchingIndices(request)
           n == IF Cardinality(idx) < 10 THEN Cardinality(idx) ELSE 10
       IN  /\ ~response.success
           /\ response.error = ErrAmbiguous
           /\ Len(response.matches) = n
           /\ \A k \in 1..n :
                 LET m == cache.apps[Kth(idx, k)]
                 IN  response.matches[k] =
                        [name |-> m.name, app_id |-> m.app_id, exe_path |-> m.exe_path]
           /\ launched = <<>>

\* C9 witness: eleven or more records match and ten are listed.
C9_Witness ==
    /\ OnWindows /\ NamePath(request) /\ response.error = ErrAmbiguous
    /\ Cardinality(MatchingIndices(request)) > 10
    /\ Len(response.matches) = 10

\* C10: on the name path with exactly one matching record: with an app_id
\* the only launch is explorer.exe on that id, even if the executable
\* exists; without one, when exe_path is set and exists, the only launch is
\* that executable with its parent directory as working directory.
C10_LaunchPriority ==
    (/\ OnWindows /\ NamePath(request) /\ response.kind = "result"
     /\ Cardinality(MatchingIndices(request)) = 1)
    => LET m == cache.apps[CHOOSE i \in MatchingIndices(request) : TRUE]
       IN  /\ Truthy(m.app_id)
                => launched = <<[launcher |-> "explorer.exe", target |-> m.app_id,
                                 cwd |-> None]>>
           /\ (~Truthy(m.app_id) /\ Truthy(m.exe_path) /\ m.exe_path \in files)
                => launched = <<[launcher |-> "exe", target |-> m.exe_path,
                                 cwd |-> SubSeq(m.exe_path, 1, Len(m.exe_path) - 1)]>>

\* C10 witness: the one match has an app_id and an executable that exists,
\* and explorer.exe was started.
C10_Witness ==
    /\ OnWindows /\ NamePath(request) /\ response.success
    /\ Cardinality(MatchingIndices(request)) = 1
    /\ LET m == cache.apps[CHOOSE i \in MatchingIndices(request) : TRUE]
       IN  /\ Truthy(m.app_id) /\ Truthy(m.exe_path) /\ m.exe_path \in files
           /\ launched = <<AppIdLaunch(m.app_id)>>

\* C11 as stated: a launch_app call whose app_id argument is given leaves
\* the cache alone, invokes no collector, starts explorer.exe once on
\* exactly the id that was given, and succeeds or fails as that start did.
C11_ExplicitIdExactly ==
    [][(/\ Idle /\ OnWindows
        /\ request'.tool = "launch_app" /\ Truthy(request'.app_id))
       => (/\ cache' = cache /\ inputs' = inputs
           /\ collected' = <<>>
           /\ launched' = <<[launcher |-> "explorer.exe", target |-> request'.app_id,
                             cwd |-> None]>>
           /\ response'.kind = "result"
           /\ response'.success <=> popens' = <<"">>)]_vars

\* C11: a launch_app call whose app_id argument is not empty once its
\* surrounding whitespace is removed leaves the cache alone, invokes no
\* collector, starts explorer.exe once on the id without that whitespace,
\* and succeeds or fails as that start did; name, exact and refresh play
\* no part.
C11_ExplicitIdBypassesInventory ==
    [][(/\ Idle /\ OnWindows
        /\ request'.tool = "launch_app" /\ Strip(OrEmpty(request'.app_id)) # <<>>)
       => (/\ cache' = cache /\ inputs' = inputs
           /\ collected' = <<>>
           /\ launched' = <<[launcher |-> "explorer.exe",
                             target |-> Strip(request'.app_id), cwd |-> None]>>
           /\ Len(popens') = 1
           /\ response'.kind = "result"
           /\ IF popens'[1] = ""
              THEN /\ response'.success
                   /\ response'.launched.app_id = Strip(request'.app_id)
              ELSE /\ ~response'.success
                   /\ response'.error = ErrLaunchAppId
                   /\ response'.detail = popens'[1])]_vars

\* C11 witness: an id with a trailing blank is given together with a name
\* and refresh = true while the held snapshot is past its time-to-live;
\* explorer.exe was started on the trimmed id and no collector ran.
C11_Witness ==
    /\ OnWindows /\ request.tool = "launch_app"
    /\ Truthy(request.name) /\ request.refresh
    /\ Strip(request.app_id) # request.app_id
    /\ Built /\ now - cache.timestamp >= CACHE_TTL_SECONDS
    /\ collected = <<>>
    /\ launched = <<AppIdLaunch(Strip(request.app_id))>>
    /\ response.success

\* C12: a launch_app call starts at most one process; when that start
\* raises, the call answers with the launch failure of the launcher that was
\* used, carrying the text of the exception, and nothing else is started.
C12_LauncherFailureIsTerminal ==
    (OnWindows /\ request.tool = "launch_app")
    => /\ Len(launched) <= 1
       /\ Len(popens) = Len(launched)
       /\ \A i \in 1..Len(popens) :
             popens[i] # ""
                => /\ response.kind = "result"
                   /\ ~response.success
                   /\ response.error = IF launched[i].launcher = "explorer.exe"
                                       THEN ErrLaunchAppId ELSE ErrLaunchExe
                   /\ response.detail = popens[i]

\* C12 witness: the one match has an app_id and an executable that exists;
\* starting explorer.exe raised, and the executable was not tried.
C12_Witness ==
    /\ OnWindows /\ NamePath(request)
    /\ Cardinality(MatchingIndices(request)) = 1
    /\ LET m == cache.apps[CHOOSE i \in MatchingIndices(request) : TRUE]
       IN  /\ Truthy(m.app_id) /\ Truthy(m.exe_path) /\ m.exe_path \in files
           /\ launched = <<AppIdLaunch(m.app_id)>>
    /\ popens = <<"WinError 2">>
    /\ response.error = ErrLaunchAppId /\ response.detail = "WinError 2"

\* C13: on the name path with exactly one matching record that has no
\* app_id and whose exe_path is empty or names a file that does not exist
\* when the call is made, the answer is the no-launch-method error and
\* nothing is started, in every state in which the call is made.
C13_NoLaunchMethod ==
    (/\ OnWindows /\ NamePath(request) /\ response.kind = "result"
     /\ Cardinality(MatchingIndices(request)) = 1)
    => LET m == cache.apps[CHOOSE i \in MatchingIndices(request) : TRUE]
       IN  (~Truthy(m.app_id) /\ (~Truthy(m.exe_path) \/ m.exe_path \notin files))
              => /\ ~response.success
                 /\ response.error = ErrNoLaunchMethod
                 /\ launched = <<>>

\* C13 witness: the call is answered from a held snapshot whose one match
\* names an executable that existed at the build and has been removed.
C13_Witness ==
    /\ OnWindows /\ NamePath(request) /\ response.kind = "result"
    /\ collected = <<>>
    /\ Cardinality(MatchingIndices(request)) = 1
    /\ LET m == cache.apps[CHOOSE i \in MatchingIndices(request) : TRUE]
       IN  ~Truthy(m.app_id) /\ Truthy(m.exe_path) /\ m.exe_path \notin files
    /\ response.error = ErrNoLaunchMethod
    /\ launched = <<>>

\* C14: a launch_app call that gives neither an app_id nor a name answers
\* with the missing-target error, leaves the cache alone, invokes no
\* collector and starts nothing.
C14_MissingTarget ==
    [][(/\ Idle /\ OnWindows
        /\ request'.tool = "launch_app"
        /\ ~Truthy(request'.app_id) /\ ~Truthy(request'.name))
       => (/\ response'.kind = "result"
           /\ ~response'.success
           /\ response'.error = ErrMissingTarget
           /\ cache' = cache /\ inputs' = inputs
           /\ collected' = <<>>
           /\ launched' = <<>>)]_vars

\* C14 witness: the call without a target is answered while the held
\* snapshot is past its time-to-live, and no collector ran.
C14_Witness ==
    /\ OnWindows /\ request.tool = "launch_app"
    /\ request.app_id = None /\ request.name = None
    /\ response.error = ErrMissingTarget
    /\ Built /\ now - cache.timestamp >= CACHE_TTL_SECONDS
    /\ collected = <<>> /\ launched = <<>>

\* C15: on the name path, when no record of the snapshot the call obtained
\* matches the name (equal keys when exact, the record's key containing
\* the name's key otherwise), the answer is the no-match error and nothing
\* is started.
C15_NoMatch ==
    (/\ OnWindows /\ NamePath(request) /\ response.kind = "result"
     /\ MatchingIndices(request) = {})
    => /\ ~response.success
       /\ response.error = ErrNoMatch
       /\ launched = <<>>

\* C15 witness: exact = true, and the snapshot has a record whose key
\* contains the name's key without being equal to it.
C15_Witness ==
    /\ OnWindows /\ NamePath(request) /\ request.exact
    /\ response.error = ErrNoMatch
    /\ launched = <<>>
    /\ \E i \in 1..Len(cache.apps) :
          Contains(NormalizedKey(cache.apps[i].name),
                   NormalizedKey(Strip(OrEmpty(request.name))))

\* C16: on a platform other than win32, a list_installed_apps or launch_app
\* call answers with the platform error, invokes no collector, starts
\* nothing and leaves the cache as it was.
C16_PlatformUnsupported ==
    [][(/\ Idle /\ ~OnWindows
        /\ request'.tool \in {"list_installed_apps", "launch_app"})
       => (/\ response'.kind = "result"
           /\ ~response'.success
           /\ response'.error = ErrPlatform
           /\ cache' = cache /\ inputs' = inputs
           /\ collected' = <<>>
           /\ launched' = <<>>)]_vars

\* C16 witness: off Windows, a launch_app call that names an app_id got the
\* platform error and explorer.exe was not started.
C16_Witness ==
    /\ ~OnWindows
    /\ request.tool = "launch_app" /\ Strip(OrEmpty(request.app_id)) # <<>>
    /\ response.error = ErrPlatform
    /\ collected = <<>> /\ launched = <<>>
    /\ cache = [timestamp |-> 0, apps |-> <<>>]

\* The source test of the design on a record, for the flags of request req.
Passes(app, req) ==
    \/ req.include_registry /\ \E k \in 1..Len(app.sources) : app.sources[k] = "registry"
    \/ req.include_start_apps /\ \E k \in 1..Len(app.sources) : app.sources[k] = "startapps"

\* The records of the snapshot that pass the source test and the query of
\* request req, in snapshot order.
PassingRecords(req) ==
    LET q == NormalizedKey(OrEmpty(req.query))
        Keep(app) == Passes(app, req) /\ (q = <<>> \/ Contains(Casefold(app.name), q))
    IN  SelectSeq(cache.apps, Keep)

\* C17: every record list_installed_apps returns is a record of the snapshot
\* that has the registry source while include_registry is true or the
\* start-menu source while include_start_apps is true; without query and
\* limit the answer is exactly those records, in snapshot order; with both
\* flags false it is empty.
C17_SourceFilter ==
    (OnWindows /\ request.tool = "list_installed_apps" /\ response.kind = "result")
    => /\ \A i \in 1..Len(response.apps) :
             /\ Passes(response.apps[i], request)
             /\ \E k \in 1..Len(cache.apps) : cache.apps[k] = response.apps[i]
       /\ (~Truthy(request.query) /\ request.limit = <<>>)
             => LET P(app) == Passes(app, request)
                IN  response.apps = SelectSeq(cache.apps, P)
       /\ (~request.include_registry /\ ~request.include_start_apps)
             => response.apps = <<>>

\* C17 witness: with include_registry = false and include_start_apps = true,
\* a record with both sources was returned and a registry-only record of
\* the snapshot was left out.
C17_Witness ==
    /\ OnWindows /\ request.tool = "list_installed_apps" /\ response.kind = "result"
    /\ ~request.include_registry /\ request.include_start_apps
    /\ \E i \in 1..Len(response.apps) :
          response.apps[i].sources = <<"registry", "startapps">>
    /\ \E k \in 1..Len(cache.apps) :
          /\ cache.apps[k].sources = <<"registry">>
          /\ \A i \in 1..Len(response.apps) : response.apps[i] # cache.apps[k]

\* C18: for every integer limit, list_installed_apps returns the first
\* max(1, limit) records that pass the filters, in snapshot order, or all
\* of them when fewer pass; without a limit the cap is 200; count is the
\* number of records returned.
C18_LimitClamp ==
    (OnWindows /\ request.tool = "list_installed_apps" /\ response.kind = "result")
    => LET passing == PassingRecords(request)
           cap == IF request.limit = <<>> THEN 200
                  ELSE IF request.limit[1] > 1 THEN request.limit[1] ELSE 1
           n == IF Len(passing) < cap THEN Len(passing) ELSE cap
       IN  /\ response.apps = SubSeq(passing, 1, n)
           /\ response.count = Len(response.apps)

\* The call started explorer.exe on an app id and reports success.
LaunchedByAppId ==
    /\ OnWindows /\ request.tool = "launch_app" /\ response.success
    /\ Len(launched) = 1 /\ launched[1].launcher = "explorer.exe"

\* C19 as stated: a successful launch through explorer.exe on an app id, on
\* the app_id path and on the name path, reports method "appid-direct".
C19_AppIdDirectTag ==
    LaunchedByAppId => response.launched.method = "appid-direct"

\* C19: a successful launch through explorer.exe on an app id, on the app_id
\* path and on the name path, reports method "startapps" and the id that
\* was launched.
C19_StartAppsTag ==
    LaunchedByAppId
    => /\ response.launched.method = "startapps"
       /\ response.launched.app_id = launched[1].target

\* C19 witness: a successful launch by name of a record that has an app_id.
C19_Witness ==
    /\ LaunchedByAppId /\ NamePath(request)
    /\ response.launched.method = "startapps"
    /\ response.launched.name # None

\* C20: a launch_app call that reports success made exactly one Popen call,
\* that call started a process, and it is the launch the answer reports;
\* this holds for every call in every state, whatever was launched before.
C20_OneLaunchPerSuccess ==
    (OnWindows /\ request.tool = "launch_app" /\ response.success)
    => /\ Len(launched) = 1
       /\ popens = <<"">>
       /\ IF launched[1].launcher = "explorer.exe"
          THEN response.launched.app_id = launched[1].target
          ELSE response.launched.exe_path = launched[1].target

\* C20 witness: a successful launch of an executable, one Popen call.
C20_Witness ==
    /\ OnWindows /\ request.tool = "launch_app" /\ response.success
    /\ Len(launched) = 1 /\ launched[1].launcher = "exe"
    /\ popens = <<"">>
    /\ response.launched.method = "exe"

\* C21: an execute_command call whose command, in lower case, contains a
\* pattern of the dangerous list is answered with the DANGEROUS COMMAND
\* BLOCKED text and its command is not given to the shell.
C21_DangerousNeverRun ==
    (/\ ~CommandIdle
     /\ \E i \in 1..Len(dangerous_patterns) :
           Contains(Lower(command), dangerous_patterns[i].pattern))
    => /\ answer.kind = "danger"
       /\ shell = <<>>

\* C22: an execute_command call whose command, in lower case, contains a
\* pattern of the long-running list is answered with the Command blocked
\* text and its command is not given to the shell.
C22_LongRunningNeverRun ==
    (/\ ~CommandIdle
     /\ \E i \in 1..Len(blocked_patterns) :
           Contains(Lower(command), blocked_patterns[i].pattern))
    => /\ answer.kind = "blocked"
       /\ shell = <<>>

\* C23: every change of the cache is one completed build: the list and the
\* timestamp are written together, the timestamp is the time of the call,
\* the list is made of the records both collectors returned in that call,
\* and a call that an exception ends leaves the list and the timestamp as
\* they were.
C23_RebuildAllOrNothing ==
    [][/\ cache' # cache
          => /\ cache'.timestamp = now
             /\ response'.kind = "result"
             /\ Len(collected') = 2
             /\ \A i \in 1..Len(cache'.apps) :
                   \E k \in 1..Len(inputs') :
                      NormalizedKey(inputs'[k].name) = NormalizedKey(cache'.apps[i].name)
             /\ \A k \in 1..Len(inputs') :
                   \E i \in 1..Len(cache'.apps) :
                      NormalizedKey(inputs'[k].name) = NormalizedKey(cache'.apps[i].name)
       /\ response'.kind = "exception" => (cache' = cache /\ inputs' = inputs)
       /\ cache'.timestamp # cache.timestamp => response'.kind = "result"]_vars

\* C23 witness: a rebuild of a stale, non-empty snapshot was ended by an
\* exception, and the cache still holds the old list with the old timestamp.
C23_Witness ==
    /\ response.kind = "exception"
    /\ collected # <<>>
    /\ cache.apps # <<>>
    /\ now - cache.timestamp >= CACHE_TTL_SECONDS
    /\ \A i \in 1..Len(cache.apps) :
          \E k \in 1..Len(inputs) :
             NormalizedKey(inputs[k].name) = NormalizedKey(cache.apps[i].name)

\* C24: a call without refresh made less than 300 s after a build that
\* yielded no record is answered from the held empty snapshot: the cache
\* keeps its timestamp and no collector is invoked.
C24_EmptySnapshotServed ==
    [][(/\ Idle /\ OnWindows
        /\ UsesSnapshot(request') /\ ~request'.refresh
        /\ Built /\ cache.apps = <<>>
        /\ now - cache.timestamp < 300)
       => (/\ cache' = cache
           /\ collected' = <<>>)]_vars

\* C25: on the name path with exact = true at most one record of the
\* snapshot has the key of the name, and the answer is never the ambiguity
\* error: it is the no-match error when no record has the key, and the
\* outcome of the one candidate otherwise.
C25_ExactNeverAmbiguous ==
    (/\ OnWindows /\ NamePath(request) /\ request.exact /\ response.kind = "result")
    => /\ Cardinality(MatchingIndices(request)) <= 1
       /\ response.error # ErrAmbiguous
       /\ response.matches = <<>>
       /\ MatchingIndices(request) = {} <=> response.error = ErrNoMatch

\* C25 witness: exact = true, the name's key was collected under two
\* spellings from the start menu and again from the registry, and the one
\* merged record was launched.
C25_Witness ==
    /\ OnWindows /\ NamePath(request) /\ request.exact /\ response.success
    /\ Cardinality(MatchingIndices(request)) = 1
    /\ LET m == cache.apps[CHOOSE i \in MatchingIndices(request) : TRUE]
       IN  /\ Len(SameKey(m)) >= 3
           /\ \E k \in 1..Len(SameKey(m)) : SameKey(m)[k].name # m.name

\* C26: every record of the held snapshot has a display name that is not
\* empty, and so a normalized key that is not empty.
C26_NamesNonEmpty ==
    \A i \in 1..Len(cache.apps) :
       /\ cache.apps[i].name # <<>>
       /\ NormalizedKey(cache.apps[i].name) # <<>>

\* C27: a list_installed_apps call that invokes no collector leaves the
\* cache as it was (the records, their order, their fields and the
\* timestamp), whatever its query, limit and source flags are.
C27_ListLeavesSnapshot ==
    [][(/\ Idle /\ OnWindows
        /\ request'.tool = "list_installed_apps"
        /\ collected' = <<>>)
       => (/\ cache' = cache
           /\ inputs' = inputs)]_vars

\* C27 witness: a call with a query, a limit and a source flag switched off
\* was answered from the held snapshot with fewer records than it holds.
C27_Witness ==
    /\ OnWindows /\ request.tool = "list_installed_apps"
    /\ response.kind = "result" /\ collected = <<>>
    /\ Truthy(request.query) /\ request.limit = <<1>>
    /\ ~request.include_start_apps
    /\ Len(response.apps) = 1
    /\ Len(cache.apps) > 1

\* C28: the records of the held snapshot are in non-decreasing order of
\* their lower-cased display names.
C28_SortedByLowerName ==
    \A i, j \in 1..Len(cache.apps) :
       i < j => ~StrLess(Lower(cache.apps[j].name), Lower(cache.apps[i].name))

\* C28 witness: a snapshot whose first record was collected last, and in
\* which a name in lower case stands before a name in upper case that
\* precedes it in code-point order.
C28_Witness ==
    /\ Built /\ Len(cache.apps) >= 2
    /\ NormalizedKey(inputs[Len(inputs)].name) = NormalizedKey(cache.apps[1].name)
    /\ NormalizedKey(inputs[1].name) # NormalizedKey(cache.apps[1].name)
    /\ \E i, j \in 1..Len(cache.apps) :
          i < j /\ StrLess(cache.apps[j].name, cache.apps[i].name)

\* C29: the display name of a record of the snapshot is the name, as it was
\* spelled, of the first collected record with its key; later records with
\* that key do not change it.
C29_FirstNameKept ==
    Built =>
       \A i \in 1..Len(cache.apps) :
          /\ SameKey(cache.apps[i]) # <<>>
          /\ cache.apps[i].name = SameKey(cache.apps[i])[1].name

\* C29 witness: a record merged from two records whose names are spelled
\* differently; it has the spelling of the first.
C29_Witness ==
    /\ Built
    /\ \E i \in 1..Len(cache.apps) :
          LET same == SameKey(cache.apps[i])
          IN  /\ Len(same) >= 2
              /\ same[2].name # same[1].name
              /\ cache.apps[i].name = same[1].name

\* C30 as stated: every record of the snapshot has at least one source,
\* its sources are among "registry" and "startmenu", and they include the
\* sources of every collected record with its key.
C30_SourcesRegistryStartmenu ==
    Built =>
       \A i \in 1..Len(cache.apps) :
          LET m == cache.apps[i]
              same == SameKey(m)
          IN  /\ m.sources # <<>>
              /\ \A t \in 1..Len(m.sources) : m.sources[t] \in {"registry", "startmenu"}
              /\ \A k \in 1..Len(same) : \A t \in 1..Len(same[k].sources) :
                    \E u \in 1..Len(m.sources) : m.sources[u] = same[k].sources[t]

\* C30: every record of the snapshot has at least one source, its sources
\* are among "registry" and "startapps", and they include the sources of
\* every collected record with its key.
C30_SourcesNeverShrink ==
    Built =>
       \A i \in 1..Len(cache.apps) :
          LET m == cache.apps[i]
              same == SameKey(m)
          IN  /\ m.sources # <<>>
              /\ \A t \in 1..Len(m.sources) : m.sources[t] \in {"registry", "startapps"}
              /\ \A k \in 1..Len(same) : \A t \in 1..Len(same[k].sources) :
                    \E u \in 1..Len(m.sources) : m.sources[u] = same[k].sources[t]

\* C30 witness: a record whose first collected record came from the start
\* menu and whose last came from the registry has both tags.
C30_Witness ==
    /\ Built
    /\ \E i \in 1..Len(cache.apps) :
          LET same == SameKey(cache.apps[i])
          IN  /\ Len(same) >= 3
              /\ same[1].sources = <<"startapps">>
              /\ same[Len(same)].sources = <<"registry">>
              /\ \E u \in 1..Len(cache.apps[i].sources) :
                    cache.apps[i].sources[u] = "startapps"

====
